---- MODULE Spec2Model ----
(***************************************************************************)
(* vtkh::Clip and vtkh::detail::MultiPlane (Clip.cpp).                     *)
(*                                                                         *)
(* Two specifications share the module:                                    *)
(*   SpecMP  one detail::MultiPlane object: its constructors, its setters  *)
(*           and the evaluation of Value / Gradient at a point;            *)
(*   Spec    one vtkh::Clip filter: its configuration setters and the      *)
(*           steps of DoExecute.                                           *)
(*                                                                         *)
(* Scalars are modelled by integers (every product and sum of the small    *)
(* integers used is exact in binary32); the double -> float conversions of *)
(* the configuration setters are modelled by ToFloat, which rounds to a    *)
(* 24 bit significand as binary32 does.                                    *)
(***************************************************************************)
EXTENDS Integers, Sequences, FiniteSets, TLC

VARIABLES
  mp,           \* SpecMP: the MultiPlane object (Points, Normals, m_num_planes, modCount)
  ev,           \* SpecMP: the last evaluation of Value/Gradient on the current mp, or NoEval
  lastOp,       \* SpecMP: the member function called last
  m_func,       \* Clip::InternalsType::m_func
  m_invert,     \* Clip::m_invert
  m_fields,     \* Filter: what GetFieldSelection() returns
  m_input,      \* Filter::m_input: the domains, each a mesh and its domain id
  m_output,     \* Filter::m_output
  data_set,     \* DoExecute's local data_set
  i,            \* DoExecute's loop index
  num_domains,  \* DoExecute's local num_domains
  pc,           \* where DoExecute stands: idle, loop, done, failed
  cleaner,      \* DoExecute's local CleanGrid: its input and how often Update ran
  clipThrew,    \* whether vtkmClip::Run threw in the run in progress
  lastSet       \* the last SetXClip call and its arguments

varsMP == <<mp, ev, lastOp>>
varsClip == <<m_func, m_invert, m_fields, m_input, m_output, data_set, i,
              num_domains, pc, cleaner, clipThrew, lastSet>>
vars == <<mp, ev, lastOp, m_func, m_invert, m_fields, m_input, m_output,
          data_set, i, num_domains, pc, cleaner, clipThrew, lastSet>>

----------------------------------------------------------------------------
(* Bounds of the model *)

\* modification counts above this are not explored
MaxMod == 2
\* the input data set holds at most this many domains
MaxDomains == 2

----------------------------------------------------------------------------
(* Vectors and scalars *)

Zero3 == <<0, 0, 0>>

Dot(a, b) == a[1] * b[1] + a[2] * b[2] + a[3] * b[3]

Sub(a, b) == <<a[1] - b[1], a[2] - b[2], a[3] - b[3]>>

\* a Scalar is finite or negative infinity
Fin(v) == [ninf |-> FALSE, val |-> v]

NegativeInfinity == [ninf |-> TRUE, val |-> 0]

\* a > b on Scalars
Greater(a, b) == IF a.ninf THEN FALSE ELSE IF b.ninf THEN TRUE ELSE a.val > b.val

Max(a, b) == IF Greater(b, a) THEN b ELSE a

----------------------------------------------------------------------------
(* detail::MultiPlane *)

\* Points[6] and Normals[6] with their initializers; the slots without an
\* initializer are value-initialized. m_num_planes = 3.
DefaultMultiPlane ==
  [Points |-> <<Zero3, Zero3, Zero3, Zero3, Zero3, Zero3>>,
   Normals |-> <<(<<-1, 0, 0>>), <<1, 0, 0>>, Zero3, Zero3, Zero3, Zero3>>,
   m_num_planes |-> 3,
   modCount |-> 0]

\* vtkm::ImplicitFunction::Modified(): advances the modification count
Modified(self) == [self EXCEPT !.modCount = @ + 1]

\* copies slots 0, 1, 2 of both arrays, then Modified()
SetPlanes(self, points, normals) ==
  Modified([self EXCEPT
    !.Points = [k \in 1..6 |-> IF k <= 3 THEN points[k] ELSE @[k]],
    !.Normals = [k \in 1..6 |-> IF k <= 3 THEN normals[k] ELSE @[k]]])

\* idx is the C++ index, 0..2 (VTKM_ASSERT)
SetPlane(self, idx, point, normal) ==
  Modified([self EXCEPT !.Points[idx + 1] = point, !.Normals[idx + 1] = normal])

SetNumPlanesUnmarked(self, num) == [self EXCEPT !.m_num_planes = num]

SetNumPlanes(self, num) ==
  Modified([self EXCEPT !.m_num_planes = num])

\* MultiPlane(points, normals, num_planes): SetPlanes, then the count is
\* stored as given
MultiPlaneCtor(points, normals, num_planes) ==
  [SetPlanes(DefaultMultiPlane, points, normals) EXCEPT !.m_num_planes = num_planes]

\* GetPlanes copies slots 0, 1, 2 out
GetPlanes(self) ==
  [points |-> [k \in 1..3 |-> self.Points[k]],
   normals |-> [k \in 1..3 |-> self.Normals[k]]]

GetPoints(self) == self.Points

GetNormals(self) == self.Normals

\* the loop of Value from `index` on, maxVal being the maximum so far
RECURSIVE ValueLoop(_, _, _, _)
ValueLoop(self, point, index, maxVal) ==
  IF index < self.m_num_planes
  THEN LET p == self.Points[index + 1]
           n == self.Normals[index + 1]
           val == Fin(Dot(Sub(point, p), n))
       IN ValueLoop(self, point, index + 1, Max(maxVal, val))
  ELSE maxVal

ValueAllSlots(self, point) ==
  ValueLoop([self EXCEPT !.m_num_planes = 3], point, 0, NegativeInfinity)

Value(self, point) == ValueLoop(self, point, 0, NegativeInfinity)

\* the loop of Gradient from `index` on; the result is maxValIdx
RECURSIVE GradientLoop(_, _, _, _, _)
GradientLoop(self, point, index, maxVal, maxValIdx) ==
  IF index < self.m_num_planes
  THEN LET p == self.Points[index + 1]
           n == self.Normals[index + 1]
           val == Fin(Dot(Sub(point, p), n))
       IN IF Greater(val, maxVal)
          THEN GradientLoop(self, point, index + 1, val, index)
          ELSE GradientLoop(self, point, index + 1, maxVal, maxValIdx)
  ELSE maxValIdx

\* as GradientLoop, with >= for >
RECURSIVE GradientLoopGe(_, _, _, _, _)
GradientLoopGe(self, point, index, maxVal, maxValIdx) ==
  IF index < self.m_num_planes
  THEN LET p == self.Points[index + 1]
           n == self.Normals[index + 1]
           val == Fin(Dot(Sub(point, p), n))
       IN IF ~Greater(maxVal, val)
          THEN GradientLoopGe(self, point, index + 1, val, index)
          ELSE GradientLoopGe(self, point, index + 1, maxVal, maxValIdx)
  ELSE maxValIdx

GradientLastWins(self, point) ==
  self.Normals[GradientLoopGe(self, point, 0, NegativeInfinity, 0) + 1]

Gradient(self, point) ==
  self.Normals[GradientLoop(self, point, 0, NegativeInfinity, 0) + 1]

----------------------------------------------------------------------------
(* double -> float, vtkm::Normalize *)

\* 2^24: a binary32 significand holds 24 bits
FloatSignificandLimit == 16777216

Abs(x) == IF x < 0 THEN -x ELSE x

\* the spacing of the floats around the magnitude a: the least power of two
\* q with a < 2^24 * q
RECURSIVE Ulp(_, _)
Ulp(a, q) == IF a < FloatSignificandLimit * q THEN q ELSE Ulp(a, 2 * q)

\* a rounded to a multiple of q, ties to the even multiple
RoundToEven(a, q) ==
  LET lo == (a \div q) * q
      r == a - lo
  IN IF 2 * r < q THEN lo
     ELSE IF 2 * r > q THEN lo + q
     ELSE IF (lo \div q) % 2 = 0 THEN lo ELSE lo + q

\* float(x) of a double x holding an integer
ToFloat(x) ==
  LET a == Abs(x)
      f == RoundToEven(a, Ulp(a, 1))
  IN IF x < 0 THEN -f ELSE f

ToFloatVec(v) == <<ToFloat(v[1]), ToFloat(v[2]), ToFloat(v[3])>>

\* |v| for the vectors whose length is an integer
Magnitude(v) == CHOOSE r \in 0..Dot(v, v) : r * r = Dot(v, v)

NormalizeNot(v) == v

\* vtkm::Normalize(v): v scaled by 1/|v|, for the non-zero vectors along an
\* axis (every component is a multiple of |v|)
Normalize(v) ==
  <<v[1] \div Magnitude(v), v[2] \div Magnitude(v), v[3] \div Magnitude(v)>>

----------------------------------------------------------------------------
(* vtkh::Clip: the configuration *)

\* what the callers pass: bounds, spheres, planes (origin and normal, the
\* normal non-zero and along an axis)
BoundsArgs ==
  {[min |-> <<0, 0, 0>>, max |-> <<1, 1, 1>>],
   [min |-> <<-1, -1, -1>>, max |-> <<16777217, 2, 2>>]}

SphereArgs ==
  {[center |-> <<0, 0, 0>>, radius |-> 1],
   [center |-> <<16777219, 0, 1>>, radius |-> 2]}

PlaneArgs ==
  {[origin |-> <<1, 0, 0>>, normal |-> <<0, 2, 0>>],
   [origin |-> <<16777217, 0, 1>>, normal |-> <<0, 0, -1>>]}

\* a default-constructed ImplicitFunctionHandle holds no function
EmptyHandle == [kind |-> "Empty"]

BoxHandle(b) ==
  [kind |-> "Box", min |-> ToFloatVec(b.min), max |-> ToFloatVec(b.max)]

SphereHandle(s) ==
  [kind |-> "Sphere", center |-> ToFloatVec(s.center), radius |-> ToFloat(s.radius)]

PlaneHandle(a) ==
  [kind |-> "Plane", origin |-> ToFloatVec(a.origin), normal |-> ToFloatVec(a.normal)]

\* the body of Set2PlaneClip up to the handle it stores
TwoPlaneHandle(a1, a2) ==
  LET plane_points == <<ToFloatVec(a1.origin), ToFloatVec(a2.origin), Zero3>>
      plane_normals == <<Normalize(ToFloatVec(a1.normal)),
                         Normalize(ToFloatVec(a2.normal)), Zero3>>
  IN [kind |-> "MultiPlane", obj |-> MultiPlaneCtor(plane_points, plane_normals, 2)]

\* the body of Set3PlaneClip up to the handle it stores
ThreePlaneHandle(a1, a2, a3) ==
  LET plane_points == <<ToFloatVec(a1.origin), ToFloatVec(a2.origin),
                        ToFloatVec(a3.origin)>>
      plane_normals == <<Normalize(ToFloatVec(a1.normal)),
                         Normalize(ToFloatVec(a2.normal)),
                         Normalize(ToFloatVec(a3.normal))>>
  IN [kind |-> "MultiPlane", obj |-> MultiPlaneCtor(plane_points, plane_normals, 3)]

\* each call the callers make, with the handle its body builds
SetBoxClipCalls == {[args |-> <<b>>, func |-> BoxHandle(b)] : b \in BoundsArgs}

SetSphereClipCalls == {[args |-> <<s>>, func |-> SphereHandle(s)] : s \in SphereArgs}

SetPlaneClipCalls == {[args |-> <<a>>, func |-> PlaneHandle(a)] : a \in PlaneArgs}

Set2PlaneClipCalls ==
  {[args |-> <<a1, a2>>, func |-> TwoPlaneHandle(a1, a2)] :
     a1 \in PlaneArgs, a2 \in PlaneArgs}

Set3PlaneClipCalls ==
  {[args |-> <<a1, a2, a3>>, func |-> ThreePlaneHandle(a1, a2, a3)] :
     a1 \in PlaneArgs, a2 \in PlaneArgs, a3 \in PlaneArgs}

\* the configuration is not touched while DoExecute runs: the filter is
\* driven by one thread
SetInvertClip ==
  /\ pc = "idle"
  /\ \E invert \in BOOLEAN : m_invert' = invert
  /\ UNCHANGED <<m_func, lastSet>>
  /\ UNCHANGED <<m_fields, m_input, m_output, data_set, i, num_domains, pc,
                 cleaner, clipThrew>>
  /\ UNCHANGED varsMP

SetBoxClipResetsInvert ==
  /\ pc = "idle"
  /\ \E c \in SetBoxClipCalls :
       /\ m_func' = c.func
       /\ lastSet' = [op |-> "SetBoxClip", args |-> c.args]
  /\ m_invert' = FALSE
  /\ UNCHANGED <<m_fields, m_input, m_output, data_set, i, num_domains, pc,
                 cleaner, clipThrew>>
  /\ UNCHANGED varsMP

SetBoxClip ==
  /\ pc = "idle"
  /\ \E c \in SetBoxClipCalls :
       /\ m_func' = c.func
       /\ lastSet' = [op |-> "SetBoxClip", args |-> c.args]
  /\ UNCHANGED m_invert
  /\ UNCHANGED <<m_fields, m_input, m_output, data_set, i, num_domains, pc,
                 cleaner, clipThrew>>
  /\ UNCHANGED varsMP

SetSphereClip ==
  /\ pc = "idle"
  /\ \E c \in SetSphereClipCalls :
       /\ m_func' = c.func
       /\ lastSet' = [op |-> "SetSphereClip", args |-> c.args]
  /\ UNCHANGED m_invert
  /\ UNCHANGED <<m_fields, m_input, m_output, data_set, i, num_domains, pc,
                 cleaner, clipThrew>>
  /\ UNCHANGED varsMP

SetPlaneClip ==
  /\ pc = "idle"
  /\ \E c \in SetPlaneClipCalls :
       /\ m_func' = c.func
       /\ lastSet' = [op |-> "SetPlaneClip", args |-> c.args]
  /\ UNCHANGED m_invert
  /\ UNCHANGED <<m_fields, m_input, m_output, data_set, i, num_domains, pc,
                 cleaner, clipThrew>>
  /\ UNCHANGED varsMP

Set2PlaneClip ==
  /\ pc = "idle"
  /\ \E c \in Set2PlaneClipCalls :
       /\ m_func' = c.func
       /\ lastSet' = [op |-> "Set2PlaneClip", args |-> c.args]
  /\ UNCHANGED m_invert
  /\ UNCHANGED <<m_fields, m_input, m_output, data_set, i, num_domains, pc,
                 cleaner, clipThrew>>
  /\ UNCHANGED varsMP

Set3PlaneClip ==
  /\ pc = "idle"
  /\ \E c \in Set3PlaneClipCalls :
       /\ m_func' = c.func
       /\ lastSet' = [op |-> "Set3PlaneClip", args |-> c.args]
  /\ UNCHANGED m_invert
  /\ UNCHANGED <<m_fields, m_input, m_output, data_set, i, num_domains, pc,
                 cleaner, clipThrew>>
  /\ UNCHANGED varsMP

----------------------------------------------------------------------------
(* vtkh::Clip::DoExecute *)

\* the input's domains: a mesh and its domain id
Domains ==
  {[mesh |-> "meshA", id |-> 7], [mesh |-> "meshB", id |-> 3],
   [mesh |-> "meshB", id |-> 7]}

RECURSIVE SeqsUpTo(_, _)
SeqsUpTo(S, n) ==
  IF n = 0 THEN {<<>>}
  ELSE LET shorter == SeqsUpTo(S, n - 1)
       IN shorter \cup {Append(q, x) : q \in {r \in shorter : Len(r) = n - 1}, x \in S}

Inputs == SeqsUpTo(Domains, MaxDomains)

FieldSelections == {"all", "selected"}

\* vtkmClip::Run, when it returns: the mesh it was given, clipped by func
\* with the invert flag and the field selection it was given
vtkmClipRun(dom, func, invert, fields) ==
  [clipped |-> dom, func |-> func, invert |-> invert, fields |-> fields]

\* DataSet::AddDomain
AddDomain(ds, dataset, domain_id) == Append(ds, [mesh |-> dataset, id |-> domain_id])

\* CleanGrid: SetInput, Update, GetOutput
CleanGridOutput(ds) == [kind |-> "cleaned", of |-> ds]

LoopBodyKeyedByIndex(ds, index) ==
  AddDomain(ds, vtkmClipRun(m_input[index + 1].mesh, m_func, m_invert, m_fields),
            index)

LoopBodyKeyedByPosition(ds, index) ==
  AddDomain(ds, vtkmClipRun(m_input[index + 1].mesh, m_func, m_invert, m_fields),
            Len(ds))

\* one iteration of the loop, for the C++ index `index`, when Run returns
LoopBody(ds, index) ==
  LET dom == m_input[index + 1].mesh
      domain_id == m_input[index + 1].id
      dataset == vtkmClipRun(dom, m_func, m_invert, m_fields)
  IN AddDomain(ds, dataset, domain_id)

\* DataSet data_set; num_domains = m_input->GetNumberOfDomains(); i = 0
DoExecuteBegin ==
  /\ pc = "idle"
  /\ pc' = "loop"
  /\ data_set' = <<>>
  /\ num_domains' = Len(m_input)
  /\ i' = 0
  /\ cleaner' = [calls |-> 0, input |-> <<>>]
  /\ clipThrew' = FALSE
  /\ UNCHANGED <<m_func, m_invert, m_fields, m_input, m_output, lastSet>>
  /\ UNCHANGED varsMP

\* an iteration in which clipper.Run returns
ClipDomain ==
  /\ pc = "loop"
  /\ i < num_domains
  /\ data_set' = LoopBody(data_set, i)
  /\ i' = i + 1
  /\ UNCHANGED <<m_func, m_invert, m_fields, m_input, m_output, num_domains, pc,
                 cleaner, clipThrew, lastSet>>
  /\ UNCHANGED varsMP

ClipDomainSkipsOnThrow ==
  /\ pc = "loop"
  /\ i < num_domains
  /\ clipThrew' = TRUE
  /\ i' = i + 1
  /\ UNCHANGED <<m_func, m_invert, m_fields, m_input, m_output, data_set,
                 num_domains, pc, cleaner, lastSet>>
  /\ UNCHANGED varsMP

\* an iteration in which clipper.Run throws: nothing in DoExecute catches
ClipDomainThrows ==
  /\ pc = "loop"
  /\ i < num_domains
  /\ clipThrew' = TRUE
  /\ pc' = "failed"
  /\ UNCHANGED <<m_func, m_invert, m_fields, m_input, m_output, data_set, i,
                 num_domains, cleaner, lastSet>>
  /\ UNCHANGED varsMP

CleanAndPublishUncleaned ==
  /\ pc = "loop"
  /\ i >= num_domains
  /\ cleaner' = [calls |-> cleaner.calls + 1, input |-> data_set]
  /\ m_output' = [kind |-> "dataset", of |-> data_set]
  /\ pc' = "done"
  /\ UNCHANGED <<m_func, m_invert, m_fields, m_input, data_set, i, num_domains,
                 clipThrew, lastSet>>
  /\ UNCHANGED varsMP

\* after the loop: cleaner.SetInput(&data_set); cleaner.Update();
\* m_output = cleaner.GetOutput()
CleanAndPublish ==
  /\ pc = "loop"
  /\ i >= num_domains
  /\ cleaner' = [calls |-> cleaner.calls + 1, input |-> data_set]
  /\ m_output' = CleanGridOutput(data_set)
  /\ pc' = "done"
  /\ UNCHANGED <<m_func, m_invert, m_fields, m_input, data_set, i, num_domains,
                 clipThrew, lastSet>>
  /\ UNCHANGED varsMP

\* DoExecute returns, or the exception leaves it: the locals are gone
DoExecuteLeave ==
  /\ pc \in {"done", "failed"}
  /\ pc' = "idle"
  /\ data_set' = <<>>
  /\ i' = 0
  /\ num_domains' = 0
  /\ cleaner' = [calls |-> 0, input |-> <<>>]
  /\ clipThrew' = FALSE
  /\ UNCHANGED <<m_func, m_invert, m_fields, m_input, m_output, lastSet>>
  /\ UNCHANGED varsMP

\* after Clip(): m_func holds no function, m_invert is false; the input and
\* the field selection are the ones the filter was given
Init ==
  /\ m_func = EmptyHandle
  /\ m_invert = FALSE
  /\ m_fields \in FieldSelections
  /\ m_input \in Inputs
  /\ m_output = [kind |-> "none"]
  /\ data_set = <<>>
  /\ i = 0
  /\ num_domains = 0
  /\ pc = "idle"
  /\ cleaner = [calls |-> 0, input |-> <<>>]
  /\ clipThrew = FALSE
  /\ lastSet = [op |-> "none"]
  /\ mp = DefaultMultiPlane
  /\ ev = [done |-> FALSE]
  /\ lastOp = "ctor"

Next ==
  \/ SetInvertClip
  \/ SetBoxClip
  \/ SetSphereClip
  \/ SetPlaneClip
  \/ Set2PlaneClip
  \/ Set3PlaneClip
  \/ DoExecuteBegin
  \/ ClipDomain
  \/ ClipDomainThrows
  \/ CleanAndPublish
  \/ DoExecuteLeave

Spec == Init /\ [][Next]_vars

----------------------------------------------------------------------------
(* SpecMP: one MultiPlane object and its callers *)

\* the points and normals the callers pass
PointArgs == {Zero3, <<1, 0, 0>>}

NormalArgs == {<<1, 0, 0>>, <<0, 1, 0>>, <<-1, 0, 0>>}

\* the plane counts the callers pass; the arrays hold 6 slots
NumPlanesArgs == {0, 1, 2, 3, 4}

\* where Value and Gradient are evaluated
EvalPoints == {Zero3, <<1, 1, 0>>, <<2, -1, 0>>}

NoEval == [done |-> FALSE]

InitClipIdle ==
  /\ m_func = EmptyHandle
  /\ m_invert = FALSE
  /\ m_fields = "all"
  /\ m_input = <<>>
  /\ m_output = [kind |-> "none"]
  /\ data_set = <<>>
  /\ i = 0
  /\ num_domains = 0
  /\ pc = "idle"
  /\ cleaner = [calls |-> 0, input |-> <<>>]
  /\ clipThrew = FALSE
  /\ lastSet = [op |-> "none"]

\* after MultiPlane() or MultiPlane(points, normals, num_planes)
InitMP ==
  /\ \/ mp = DefaultMultiPlane
     \/ \E points \in [1..3 -> PointArgs], normals \in [1..3 -> NormalArgs],
           num \in NumPlanesArgs :
          mp = MultiPlaneCtor(points, normals, num)
  /\ ev = NoEval
  /\ lastOp = "ctor"
  /\ InitClipIdle

CallSetPlanes ==
  /\ mp.modCount < MaxMod
  /\ \E points \in [1..3 -> PointArgs], normals \in [1..3 -> NormalArgs] :
       mp' = SetPlanes(mp, points, normals)
  /\ ev' = NoEval
  /\ lastOp' = "SetPlanes"
  /\ UNCHANGED varsClip

CallSetPlane ==
  /\ mp.modCount < MaxMod
  /\ \E idx \in 0..2, point \in PointArgs, normal \in NormalArgs :
       mp' = SetPlane(mp, idx, point, normal)
  /\ ev' = NoEval
  /\ lastOp' = "SetPlane"
  /\ UNCHANGED varsClip

CallSetNumPlanes ==
  /\ mp.modCount < MaxMod
  /\ \E num \in NumPlanesArgs : mp' = SetNumPlanes(mp, num)
  /\ ev' = NoEval
  /\ lastOp' = "SetNumPlanes"
  /\ UNCHANGED varsClip

\* a caller evaluates Value(point) and Gradient(point)
Evaluate ==
  /\ \E point \in EvalPoints :
       ev' = [done |-> TRUE, point |-> point,
              value |-> Value(mp, point), grad |-> Gradient(mp, point)]
  /\ lastOp' = "Evaluate"
  /\ UNCHANGED mp
  /\ UNCHANGED varsClip

NextMP ==
  \/ CallSetPlanes
  \/ CallSetPlane
  \/ CallSetNumPlanes
  \/ Evaluate

SpecMP == InitMP /\ [][NextMP]_vars

----------------------------------------------------------------------------
(* Properties of MultiPlane, checked under SpecMP *)

\* d_k = dot(point - point_k, normal_k) of the plane in slot k (1-based)
PlaneDist(self, k, point) == Dot(Sub(point, self.Points[k]), self.Normals[k])

ActiveDists(self, point) ==
  {PlaneDist(self, k, point) : k \in 1..self.m_num_planes}

SetMax(S) == CHOOSE m \in S : \A x \in S : x <= m

\* self with the slots of index >= N overwritten by point/normal
WithInactiveSlots(self, point, normal) ==
  [self EXCEPT
    !.Points = [k \in 1..6 |-> IF k > self.m_num_planes THEN point ELSE @[k]],
    !.Normals = [k \in 1..6 |-> IF k > self.m_num_planes THEN normal ELSE @[k]]]

\* C1: with an active count N in {2,3}, Value(p) is the maximum of
\* dot(p - point_i, normal_i) over the active planes i < N, and it is the
\* same whatever the slots of index >= N hold.
C1_ValueIsMaxOverActive ==
  (ev.done /\ mp.m_num_planes \in {2, 3}) =>
    /\ ev.value = Fin(SetMax(ActiveDists(mp, ev.point)))
    /\ \A point \in PointArgs \cup EvalPoints, normal \in NormalArgs \cup {Zero3} :
         Value(WithInactiveSlots(mp, point, normal), ev.point) = ev.value

\* two active planes, and an inactive third one whose distance is the largest
C1_Witness ==
  /\ ev.done
  /\ mp.m_num_planes = 2
  /\ PlaneDist(mp, 1, ev.point) < PlaneDist(mp, 2, ev.point)
  /\ PlaneDist(mp, 2, ev.point) < PlaneDist(mp, 3, ev.point)
  /\ ev.value = Fin(PlaneDist(mp, 2, ev.point))

\* the lowest (1-based) active slot whose distance is the maximum
LowestArgMax(self, point) ==
  CHOOSE k \in 1..self.m_num_planes :
    /\ PlaneDist(self, k, point) = SetMax(ActiveDists(self, point))
    /\ \A j \in 1..(k - 1) : PlaneDist(self, j, point) < PlaneDist(self, k, point)

\* C2: with an active count N in {2,3}, Gradient(p) is the stored normal of
\* the active plane with the maximal d_i, the lowest-indexed one on a tie.
C2_GradientIsNormalOfLowestMax ==
  (ev.done /\ mp.m_num_planes \in {2, 3}) =>
    /\ ev.grad = mp.Normals[LowestArgMax(mp, ev.point)]
    /\ ev.grad \in {mp.Normals[k] : k \in 1..mp.m_num_planes}

\* a tie between two active planes of different normals, the second of them
\* not the first plane
C2_Witness ==
  /\ ev.done
  /\ mp.m_num_planes = 3
  /\ PlaneDist(mp, 1, ev.point) < PlaneDist(mp, 2, ev.point)
  /\ PlaneDist(mp, 2, ev.point) = PlaneDist(mp, 3, ev.point)
  /\ mp.Normals[2] # mp.Normals[3]
  /\ ev.grad = mp.Normals[2]

\* C6: no MultiPlane whose active count is outside {2,3} is evaluated
\* (such a count would have been refused by the constructor or SetNumPlanes).
C6_EvaluatedOnlyWithTwoOrThree ==
  ev.done => mp.m_num_planes \in {2, 3}

Setters == {"SetPlanes", "SetPlane", "SetNumPlanes"}

\* C10: every call of SetPlanes, SetPlane or SetNumPlanes advances the
\* modification count by one, and no step changes the points, the normals or
\* the active count and leaves the modification count as it was.
C10_SettersAdvanceModCount ==
  [][/\ (lastOp' \in Setters) => (mp'.modCount = mp.modCount + 1)
     /\ (mp'.Points # mp.Points \/ mp'.Normals # mp.Normals
           \/ mp'.m_num_planes # mp.m_num_planes)
          => (mp'.modCount > mp.modCount)]_vars

\* SetNumPlanes was called on an object modified once before, and changed
\* nothing but the count
C10_Witness ==
  /\ mp.modCount = 2
  /\ lastOp = "SetNumPlanes"
  /\ mp.m_num_planes = 2
  /\ mp.Points # DefaultMultiPlane.Points

----------------------------------------------------------------------------
(* Properties of the configuration, checked under Spec *)

\* f is a float: a multiple of the spacing of the floats of its magnitude
Representable(f) == Abs(f) % Ulp(Abs(f), 1) = 0

\* f is a float nearest to the double x
IsFloatOf(f, x) == Representable(f) /\ 2 * Abs(f - x) <= Ulp(Abs(x), 1)

IsFloatVecOf(f, v) == \A k \in 1..3 : IsFloatOf(f[k], v[k])

\* u is the unit vector along the float conversion of the non-zero n
IsUnitVecOf(u, n) ==
  /\ Dot(u, u) = 1
  /\ \E len \in 1..Dot(n, n) :
       IsFloatVecOf(<<len * u[1], len * u[2], len * u[3]>>, n)

\* C3 (as amended): after Set2PlaneClip(origin1, normal1, origin2, normal2)
\* with non-zero normals, GetPlanes / GetPoints / GetNormals give, for slots 0
\* and 1, the origins converted to float and the normals converted to float
\* and scaled to unit length; slot 2 holds the zero point and the zero normal,
\* and the active count is 2.
C3_Set2PlaneRoundTripNormalized ==
  (lastSet.op = "Set2PlaneClip") =>
    LET got == GetPlanes(m_func.obj)
        a1 == lastSet.args[1]
        a2 == lastSet.args[2]
    IN /\ m_func.kind = "MultiPlane"
       /\ IsFloatVecOf(got.points[1], a1.origin)
       /\ IsFloatVecOf(got.points[2], a2.origin)
       /\ IsUnitVecOf(got.normals[1], a1.normal)
       /\ IsUnitVecOf(got.normals[2], a2.normal)
       /\ got.points[3] = Zero3
       /\ got.normals[3] = Zero3
       /\ \A k \in 1..3 : /\ GetPoints(m_func.obj)[k] = got.points[k]
                          /\ GetNormals(m_func.obj)[k] = got.normals[k]
       /\ m_func.obj.m_num_planes = 2

\* Set2PlaneClip was called with a normal of length 2 and an origin that is
\* no float
C3_Witness ==
  /\ lastSet.op = "Set2PlaneClip"
  /\ lastSet.args[1].normal = <<0, 2, 0>>
  /\ lastSet.args[2].origin = <<16777217, 0, 1>>
  /\ GetPlanes(m_func.obj).normals[1] = <<0, 1, 0>>
  /\ GetPlanes(m_func.obj).points[2] = <<16777216, 0, 1>>

\* C3 as stated: after Set2PlaneClip the points and normals read back are
\* those passed in, for slots 0 and 1; slot 2 is zero and the count is 2.
C3_Set2PlaneRoundTripExact ==
  (lastSet.op = "Set2PlaneClip") =>
    LET got == GetPlanes(m_func.obj)
        a1 == lastSet.args[1]
        a2 == lastSet.args[2]
    IN /\ got.points[1] = a1.origin
       /\ got.points[2] = a2.origin
       /\ got.normals[1] = a1.normal
       /\ got.normals[2] = a2.normal
       /\ got.points[3] = Zero3
       /\ got.normals[3] = Zero3
       /\ m_func.obj.m_num_planes = 2

SurfaceKinds == {"Box", "Sphere", "Plane", "MultiPlane"}

\* the handle holds what the call named by `call` builds from its arguments
\* alone: the variant, its fields, and for a MultiPlane a new object
HoldsSurfaceOf(func, call) ==
  CASE call.op = "SetBoxClip" ->
         /\ DOMAIN func = {"kind", "min", "max"}
         /\ func.kind = "Box"
         /\ IsFloatVecOf(func.min, call.args[1].min)
         /\ IsFloatVecOf(func.max, call.args[1].max)
    [] call.op = "SetSphereClip" ->
         /\ DOMAIN func = {"kind", "center", "radius"}
         /\ func.kind = "Sphere"
         /\ IsFloatVecOf(func.center, call.args[1].center)
         /\ IsFloatOf(func.radius, call.args[1].radius)
    [] call.op = "SetPlaneClip" ->
         /\ DOMAIN func = {"kind", "origin", "normal"}
         /\ func.kind = "Plane"
         /\ IsFloatVecOf(func.origin, call.args[1].origin)
         /\ IsFloatVecOf(func.normal, call.args[1].normal)
    [] call.op \in {"Set2PlaneClip", "Set3PlaneClip"} ->
         /\ DOMAIN func = {"kind", "obj"}
         /\ func.kind = "MultiPlane"
         /\ func.obj.m_num_planes = Len(call.args)
         /\ func.obj.modCount = 1
         /\ \A k \in 1..6 :
              IF k <= Len(call.args)
              THEN /\ IsFloatVecOf(func.obj.Points[k], call.args[k].origin)
                   /\ IsUnitVecOf(func.obj.Normals[k], call.args[k].normal)
              ELSE /\ func.obj.Points[k] = Zero3
                   /\ func.obj.Normals[k] = Zero3
    [] OTHER -> FALSE

\* C7 (as amended): a Clip holds no surface (an empty handle) from its
\* construction until the first SetXClip call, and from then on exactly one
\* surface: the variant the last SetXClip call names, built from that call's
\* arguments alone. It holds one boolean invert, false at construction. A
\* SetXClip call leaves invert unchanged and SetInvertClip changes only invert.
C7_OneSurfaceReplacedWholesale ==
  /\ [](/\ m_invert \in BOOLEAN
        /\ (lastSet.op = "none") => (m_func = EmptyHandle)
        /\ (lastSet.op # "none") =>
             (m_func.kind \in SurfaceKinds /\ HoldsSurfaceOf(m_func, lastSet)))
  /\ [][/\ (m_func' # m_func \/ lastSet' # lastSet) => (m_invert' = m_invert)
        /\ (m_invert' # m_invert) => (m_func' = m_func /\ lastSet' = lastSet)]_vars

\* a 2-plane surface is configured, invert is true, and the output of an
\* earlier run shows that a 3-plane surface was configured before it
C7_Witness ==
  /\ lastSet.op = "Set2PlaneClip"
  /\ m_func.obj.Points[3] = Zero3
  /\ m_invert = TRUE
  /\ m_output.kind = "cleaned"
  /\ Len(m_output.of) > 0
  /\ m_output.of[1].mesh.func.kind = "MultiPlane"
  /\ m_output.of[1].mesh.func.obj.m_num_planes = 3
  /\ m_output.of[1].mesh.func.obj.Points[3] # Zero3
  /\ m_output.of[1].mesh.invert = TRUE

\* C7 as stated, its first part: in every reachable state, from construction
\* on, the configuration holds exactly one active surface.
C7_AlwaysHoldsOneSurface ==
  m_func.kind \in SurfaceKinds

----------------------------------------------------------------------------
(* Properties of DoExecute, checked under Spec *)

\* what the run must hand to cleanup: for each input domain, in the input's
\* order, the clip of its mesh under its own domain id
ExpectedDomains ==
  [k \in 1..Len(m_input) |->
     [mesh |-> [clipped |-> m_input[k].mesh, func |-> m_func,
                invert |-> m_invert, fields |-> m_fields],
      id |-> m_input[k].id]]

\* C4: when a run completes, the collection handed to cleanup holds exactly
\* one entry per input domain: the clip of that domain's mesh by the
\* configured surface, invert flag and field selection, under the domain's
\* own id; and nothing else.
C4_OneEntryPerDomainUnderItsId ==
  /\ (pc = "done") =>
       /\ cleaner.input = ExpectedDomains
       /\ Len(cleaner.input) = Len(m_input)
  /\ (pc \in {"loop", "failed"}) =>
       /\ Len(data_set) = i
       /\ \A k \in 1..i : data_set[k] = ExpectedDomains[k]

\* a completed run over two domains whose ids are not in ascending order,
\* with invert set and a MultiPlane surface
C4_Witness ==
  /\ pc = "done"
  /\ Len(m_input) = 2
  /\ m_input[1].id > m_input[2].id
  /\ m_input[1].mesh # m_input[2].mesh
  /\ m_invert = TRUE
  /\ m_func.kind = "MultiPlane"
  /\ Len(cleaner.input) = 2

\* C5: once the clip primitive has thrown in a run, DoExecute is left by the
\* exception: no further domain is clipped, cleanup is not invoked, and the
\* output keeps the value it had before the run.
C5_ThrowAbortsRun ==
  /\ [](clipThrew =>
          /\ pc = "failed"
          /\ cleaner.calls = 0
          /\ Len(data_set) = i
          /\ i < num_domains)
  /\ [][/\ clipThrew => (pc' = "idle" /\ m_output' = m_output)
        /\ (m_output' # m_output) => (pc' = "done" /\ ~clipThrew /\ ~clipThrew')]_vars

\* the primitive threw on the second of two domains, in a run after one that
\* had published an output
C5_Witness ==
  /\ clipThrew
  /\ pc = "failed"
  /\ num_domains = 2
  /\ i = 1
  /\ m_output.kind = "cleaned"

\* C8: in a run cleanup is invoked exactly once, after every input domain has
\* been clipped and added, never before; the output is the cleanup's result.
\* With no input domain cleanup still runs once, on the empty collection.
C8_CleanupOnceAfterAllDomains ==
  /\ (pc = "done") =>
       /\ cleaner.calls = 1
       /\ cleaner.input = data_set
       /\ Len(data_set) = Len(m_input)
       /\ i = num_domains
       /\ m_output = [kind |-> "cleaned", of |-> data_set]
  /\ (pc \in {"loop", "failed"}) => (cleaner.calls = 0)

\* a completed run over two domains
C8_Witness ==
  /\ pc = "done"
  /\ Len(m_input) = 2
  /\ cleaner.calls = 1
  /\ Len(m_output.of) = 2

\* a completed run over no domain
C8_WitnessEmptyInput ==
  /\ pc = "done"
  /\ Len(m_input) = 0
  /\ cleaner.calls = 1
  /\ m_output = [kind |-> "cleaned", of |-> <<>>]

\* the loop body applied to the domains in the order order[1], order[2], ...
\* order[k] (1-based positions of the input)
RECURSIVE RunInOrder(_, _)
RunInOrder(order, k) ==
  IF k = 0 THEN <<>> ELSE LoopBody(RunInOrder(order, k - 1), order[k] - 1)

Count(q, e) == Cardinality({k \in 1..Len(q) : q[k] = e})

\* the same entries, each as often, in any order
SameEntries(a, b) ==
  /\ Len(a) = Len(b)
  /\ \A k \in 1..Len(a) : Count(a, a[k]) = Count(b, a[k])

====
